---- MODULE Spec2Model ----
(***************************************************************************)
(* Model of annual_engine.py: the attendance-duration parser, the record   *)
(* summarizer, the entitlement advisor, the payout calculator with its     *)
(* monetary rounding, and the pipeline that composes them.                 *)
(*                                                                         *)
(* The engine is a set of pure functions.  Each function is an operator    *)
(* translated from its code, and each specification below draws the        *)
(* arguments of one function in Init (pc = "call") and applies the         *)
(* function in its single action (pc = "return", ret = the value).         *)
(*                                                                         *)
(* Text is a sequence of Unicode code points.  Python floats are modelled  *)
(* by exact values: whole numbers where the code only adds and multiplies  *)
(* whole inputs, and normalised fractions [n, d] where it divides.         *)
(***************************************************************************)
EXTENDS Integers, Sequences, FiniteSets, TLC

VARIABLES pc, args, ret

vars == <<pc, args, ret>>

\* value of ret before the function has returned
NoRet == [pending |-> TRUE]

(***************************************************************************)
(* Bounds                                                                  *)
(***************************************************************************)
\* longest duration text drawn
MaxLen == 7

\* most digits in one number of a duration text drawn
MaxDigits == 3

(***************************************************************************)
(* Text helpers (str.strip, re.findall(r"\d+"), int)                       *)
(***************************************************************************)
\* ' '
SPACE == 32

Whitespace == {9, 10, 11, 12, 13, 32}

IsDigit(c) == c \in 48..57

RECURSIVE lstrip(_)
lstrip(s) ==
    IF s = <<>> THEN s
    ELSE IF Head(s) \in Whitespace THEN lstrip(Tail(s)) ELSE s

RECURSIVE rstrip(_)
rstrip(s) ==
    IF s = <<>> THEN s
    ELSE IF s[Len(s)] \in Whitespace THEN rstrip(SubSeq(s, 1, Len(s) - 1)) ELSE s

strip(s) == rstrip(lstrip(s))

\* re.findall(r"\d+", s): the maximal runs of digits, left to right.
\* cur is the run being scanned, acc the runs already closed.
RECURSIVE findall_scan(_, _, _)
findall_scan(s, cur, acc) ==
    IF s = <<>>
    THEN IF cur = <<>> THEN acc ELSE Append(acc, cur)
    ELSE IF IsDigit(Head(s))
         THEN findall_scan(Tail(s), Append(cur, Head(s)), acc)
         ELSE findall_scan(Tail(s), <<>>,
                           IF cur = <<>> THEN acc ELSE Append(acc, cur))

findall_digits(s) == findall_scan(s, <<>>, <<>>)

\* int("...") of a run of digits
RECURSIVE int_of(_)
int_of(run) ==
    IF run = <<>> THEN 0
    ELSE int_of(SubSeq(run, 1, Len(run) - 1)) * 10 + (run[Len(run)] - 48)

(***************************************************************************)
(* NiceRecord.parse_duration                                               *)
(***************************************************************************)
\* self.hours_per_day or 8
hpd_or_8(hours_per_day) == IF hours_per_day = 0 THEN 8 ELSE hours_per_day

\* total_hours = total_minutes / 60.0, kept as the fraction it is
total_hours_of(total_minutes) == [num |-> total_minutes, den |-> 60]

parse_duration_ge3_as_eq3(rec) ==
    LET txt == strip(rec.duration_raw) IN
    IF txt = <<>>
    THEN [days |-> 0, hours |-> 0, minutes |-> 0, total_minutes |-> 0,
          total_hours |-> total_hours_of(0)]
    ELSE
      LET nums == findall_digits(txt)
          d == IF Len(nums) >= 1 /\ Len(nums) <= 3 THEN int_of(nums[1]) ELSE 0
          h == IF Len(nums) >= 2 /\ Len(nums) <= 3 THEN int_of(nums[2]) ELSE 0
          m == IF Len(nums) = 3 THEN int_of(nums[3]) ELSE 0
          hpd == hpd_or_8(rec.hours_per_day)
          total_minutes == (d * hpd + h) * 60 + m
      IN [days |-> d, hours |-> h, minutes |-> m,
          total_minutes |-> total_minutes,
          total_hours |-> total_hours_of(total_minutes)]

parse_duration(rec) ==
    LET txt == strip(rec.duration_raw) IN
    IF txt = <<>>
    THEN [days |-> 0, hours |-> 0, minutes |-> 0, total_minutes |-> 0,
          total_hours |-> total_hours_of(0)]
    ELSE
      LET nums == findall_digits(txt)
          d == IF Len(nums) >= 1 THEN int_of(nums[1]) ELSE 0
          h == IF Len(nums) >= 2 THEN int_of(nums[2]) ELSE 0
          m == IF Len(nums) >= 3 THEN int_of(nums[3]) ELSE 0
          hpd == hpd_or_8(rec.hours_per_day)
          total_minutes == (d * hpd + h) * 60 + m
      IN [days |-> d, hours |-> h, minutes |-> m,
          total_minutes |-> total_minutes,
          total_hours |-> total_hours_of(total_minutes)]

(***************************************************************************)
(* Specification of the duration parser                                    *)
(***************************************************************************)
\* '1', '2', ' ', 'h'
DurationAlphabet == {49, 50, SPACE, 104}

\* the texts up to MaxLen in which no number has more than MaxDigits digits
DurationTexts ==
    {s \in UNION {[1..n -> DurationAlphabet] : n \in 0..MaxLen} :
        \A i \in 1..(Len(s) - MaxDigits) :
            \E k \in i..(i + MaxDigits) : ~IsDigit(s[k])}

\* hours_per_day values drawn for a record: negative, zero, positive
HoursPerDayValues == {-2, 0, 4, 8}

InitDuration ==
    /\ pc = "call"
    /\ args \in [leave_type : {<<>>}, duration_raw : DurationTexts,
                 hours_per_day : HoursPerDayValues]
    /\ ret = NoRet

ParseDuration ==
    /\ pc = "call"
    /\ ret' = parse_duration(args)
    /\ pc' = "return"
    /\ UNCHANGED args

NextDuration == ParseDuration

SpecDuration == InitDuration /\ [][NextDuration]_vars

(***************************************************************************)
(* C1, C9: the duration parser                                             *)
(***************************************************************************)
\* The runs of digits of a text, described by position and not by scanning:
\* a run starts at a digit that has no digit before it and ends at the last
\* digit reached from there without leaving the digits.
RunStarts(s) ==
    {i \in 1..Len(s) : IsDigit(s[i]) /\ (i = 1 \/ ~IsDigit(s[i - 1]))}

RunEnd(s, i) ==
    CHOOSE j \in i..Len(s) :
        /\ \A k \in i..j : IsDigit(s[k])
        /\ (j = Len(s) \/ ~IsDigit(s[j + 1]))

\* the start of the k-th run from the left
KthStart(s, k) ==
    CHOOSE i \in RunStarts(s) :
        Cardinality({x \in RunStarts(s) : x < i}) = k - 1

RECURSIVE Pow10(_)
Pow10(n) == IF n = 0 THEN 1 ELSE 10 * Pow10(n - 1)

RECURSIVE SumOver(_, _)
SumOver(S, f) ==
    IF S = {} THEN 0
    ELSE LET x == CHOOSE y \in S : TRUE IN f[x] + SumOver(S \ {x}, f)

\* decimal value of the k-th run, 0 when there is no k-th run
RunValue(s, k) ==
    IF Cardinality(RunStarts(s)) < k THEN 0
    ELSE LET i == KthStart(s, k)
             j == RunEnd(s, i)
         IN SumOver(i..j, [p \in i..j |-> (s[p] - 48) * Pow10(j - p)])

C9_NonPositiveHoursPerDayUses8 ==
    (pc = "return" /\ args.hours_per_day <= 0) =>
        /\ ret.total_minutes = (ret.days * 8 + ret.hours) * 60 + ret.minutes
        /\ ret.total_minutes >= 0

(***************************************************************************)
(* summarize_nice_records                                                  *)
(***************************************************************************)
\* most records drawn for one summary
MaxRecords == 3

\* the literal "미지정" put in place of an empty label
UNSPECIFIED == <<48120, 51648, 51221>>

\* str < str in Python: by code point, a proper prefix first
RECURSIVE str_lt(_, _)
str_lt(a, b) ==
    IF b = <<>> THEN FALSE
    ELSE IF a = <<>> THEN TRUE
    ELSE IF Head(a) # Head(b) THEN Head(a) < Head(b)
    ELSE str_lt(Tail(a), Tail(b))

\* a // b in Python, b # 0: the quotient rounded towards minus infinity
py_floordiv(a, b) == IF b > 0 THEN a \div b ELSE (0 - a) \div (0 - b)

record_key_unstripped(rec) ==
    IF rec.leave_type = <<>> THEN UNSPECIFIED ELSE rec.leave_type

\* key = rec.leave_type.strip() or "미지정"
record_key(rec) ==
    IF strip(rec.leave_type) = <<>> THEN UNSPECIFIED ELSE strip(rec.leave_type)

\* position of key in the dict (kept in insertion order), 0 when absent
dict_index(by_type, key) ==
    IF \E i \in 1..Len(by_type) : by_type[i].leave_type = key
    THEN CHOOSE i \in 1..Len(by_type) : by_type[i].leave_type = key
    ELSE 0

\* the loop over the records: by_type after the records have been added
RECURSIVE accumulate(_, _)
accumulate(records, by_type) ==
    IF records = <<>> THEN by_type
    ELSE
      LET rec == Head(records)
          parsed == parse_duration(rec)
          key == record_key(rec)
          with_key ==
              IF dict_index(by_type, key) = 0
              THEN Append(by_type,
                          [leave_type |-> key, count |-> 0, total_minutes |-> 0,
                           hours_per_day |-> hpd_or_8(rec.hours_per_day)])
              ELSE by_type
          i == dict_index(with_key, key)
          added ==
              [with_key EXCEPT ![i].count = @ + 1,
                               ![i].total_minutes = @ + parsed.total_minutes]
      IN accumulate(Tail(records), added)

\* sorted(by_type.items(), key=lambda x: x[0])
RECURSIVE insert_sorted(_, _)
insert_sorted(sorted, info) ==
    IF sorted = <<>> THEN <<info>>
    ELSE IF str_lt(info.leave_type, Head(sorted).leave_type)
         THEN <<info>> \o sorted
         ELSE <<Head(sorted)>> \o insert_sorted(Tail(sorted), info)

RECURSIVE sorted_items(_)
sorted_items(by_type) ==
    IF by_type = <<>> THEN <<>>
    ELSE insert_sorted(sorted_items(SubSeq(by_type, 1, Len(by_type) - 1)),
                       by_type[Len(by_type)])

\* one output row; the two decimal-hour fields are formatted floats and are
\* left out, the day/hour/minute text is kept as its three numbers
summary_row(info) ==
    LET total_minutes == info.total_minutes
        hpd == info.hours_per_day
        day_from_min == py_floordiv(total_minutes, hpd * 60)
        remain_min == total_minutes - day_from_min * hpd * 60
        hour_from_min == py_floordiv(remain_min, 60)
        minute == remain_min - hour_from_min * 60
    IN [leave_type |-> info.leave_type,
        count |-> info.count,
        sum_d_h_m |-> <<day_from_min, hour_from_min, minute>>]

\* by_type is the dict the loop has filled, results the list returned
summarize_nice_records(records) ==
    LET by_type == accumulate(records, <<>>)
        items == sorted_items(by_type)
    IN [by_type |-> by_type,
        results |-> [i \in 1..Len(items) |-> summary_row(items[i])]]

(***************************************************************************)
(* Specification of the summarizer                                         *)
(***************************************************************************)
\* "", " ", " a", "a ", "b", "ab"
LabelValues ==
    {<<>>, <<SPACE>>, <<SPACE, 97>>, <<97, SPACE>>, <<98>>, <<97, 98>>}

\* "1 2" on a 4-hour day, "2h" with hours_per_day 0
RecordValues ==
    [leave_type : LabelValues, duration_raw : {<<49, SPACE, 50>>},
     hours_per_day : {4}]
    \cup
    [leave_type : LabelValues, duration_raw : {<<50, 104>>},
     hours_per_day : {0}]

RecordLists == UNION {[1..n -> RecordValues] : n \in 0..MaxRecords}

InitSummary ==
    /\ pc = "call"
    /\ args \in [records : RecordLists]
    /\ ret = NoRet

Summarize ==
    /\ pc = "call"
    /\ ret' = summarize_nice_records(args.records)
    /\ pc' = "return"
    /\ UNCHANGED args

NextSummary == Summarize

SpecSummary == InitSummary /\ [][NextSummary]_vars

(***************************************************************************)
(* C2: the summarizer                                                      *)
(***************************************************************************)
\* the label without its leading and trailing whitespace, by position
TrimmedLabel(s) ==
    LET inked == {i \in 1..Len(s) : s[i] \notin Whitespace} IN
    IF inked = {} THEN <<>>
    ELSE LET lo == CHOOSE i \in inked : \A j \in inked : i <= j
             hi == CHOOSE i \in inked : \A j \in inked : j <= i
         IN SubSeq(s, lo, hi)

GroupLabel(rec) ==
    IF TrimmedLabel(rec.leave_type) = <<>> THEN UNSPECIFIED
    ELSE TrimmedLabel(rec.leave_type)

\* a before b in lexicographic order of code points
LexBefore(a, b) ==
    \/ Len(a) < Len(b) /\ \A k \in 1..Len(a) : a[k] = b[k]
    \/ \E k \in 1..Len(a) :
          /\ k <= Len(b)
          /\ a[k] < b[k]
          /\ \A j \in 1..(k - 1) : a[j] = b[j]

RecordsOfGroup(records, label) ==
    {i \in 1..Len(records) : GroupLabel(records[i]) = label}

ParsedMinutes(records) ==
    [i \in 1..Len(records) |-> parse_duration(records[i]).total_minutes]

\* C2: the output has one entry per distinct trimmed label (an empty label
\* is the unspecified marker), in lexicographic order of the labels; the
\* count of a group is the number of records with its label, its accumulated
\* total_minutes is the sum of their parsed total_minutes, and the groups
\* together add up to the sum over all the records.
C2_SummaryGroupsSortedAndSummed ==
    pc = "return" =>
        LET records == args.records
            results == ret.results
            by_type == ret.by_type
            minutes == ParsedMinutes(records)
        IN /\ {results[i].leave_type : i \in 1..Len(results)}
                = {GroupLabel(records[i]) : i \in 1..Len(records)}
           /\ \A i, j \in 1..Len(results) :
                i < j => LexBefore(results[i].leave_type, results[j].leave_type)
           /\ \A i \in 1..Len(results) :
                results[i].count
                    = Cardinality(RecordsOfGroup(records, results[i].leave_type))
           /\ Len(by_type) = Len(results)
           /\ \A i \in 1..Len(by_type) :
                /\ \E j \in 1..Len(results) :
                      /\ results[j].leave_type = by_type[i].leave_type
                      /\ results[j].count = by_type[i].count
                /\ by_type[i].total_minutes
                    = SumOver(RecordsOfGroup(records, by_type[i].leave_type),
                              minutes)
           /\ SumOver(1..Len(by_type),
                      [i \in 1..Len(by_type) |-> by_type[i].total_minutes])
                = SumOver(1..Len(records), minutes)

\* three records given in an order that is not the label order, two of them
\* with the same label once trimmed, one with a blank label
C2_Witness ==
    /\ pc = "return"
    /\ Len(args.records) = 3
    /\ args.records[1].leave_type = <<98>>
    /\ args.records[2].leave_type = <<SPACE>>
    /\ args.records[3].leave_type = <<SPACE, 97>>
    /\ Len(ret.results) = 3
    /\ ret.results[1].leave_type = <<97>>
    /\ ret.results[2].leave_type = <<98>>
    /\ ret.results[3].leave_type = UNSPECIFIED
    /\ ret.by_type[1].total_minutes > 0

(***************************************************************************)
(* Float values that come from a division, as normalised fractions         *)
(***************************************************************************)
Abs(x) == IF x < 0 THEN 0 - x ELSE x

RECURSIVE gcd(_, _)
gcd(a, b) == IF b = 0 THEN a ELSE gcd(b, a % b)

\* n / d with d # 0, in lowest terms with a positive denominator
Frac(n, d) ==
    LET g == gcd(Abs(n), Abs(d))
        sign == IF d < 0 THEN 0 - 1 ELSE 1
    IN [n |-> sign * (n \div g), d |-> Abs(d) \div g]

\* float(k) of a whole number
Whole(k) == [n |-> k, d |-> 1]

FracLE(x, y) == x.n * y.d <= y.n * x.d

FracLT(x, y) == x.n * y.d < y.n * x.d

(***************************************************************************)
(* WageProfile.daily_wage                                                  *)
(***************************************************************************)
daily_wage(self) ==
    IF self.wage_type = "hourly"
    THEN IF self.wage_amount > 0 /\ self.hours_per_day > 0
         THEN Whole(self.wage_amount * self.hours_per_day)
         ELSE Whole(0)
    ELSE IF self.wage_type = "daily"
    THEN Whole(self.wage_amount)
    ELSE IF self.wage_type = "monthly"
    THEN IF self.wage_amount > 0 /\ self.monthly_work_days > 0
         THEN Frac(self.wage_amount, self.monthly_work_days)
         ELSE Whole(0)
    ELSE Whole(0)

(***************************************************************************)
(* Specification of the daily wage                                         *)
(***************************************************************************)
WageTypeValues == {"hourly", "daily", "monthly", "weekly"}

WageAmountValues == {-1000, 0, 100, 2000}

WageHoursValues == {-8, 0, 4, 8}

WorkDaysValues == {-22, 0, 3, 22}

WageProfiles ==
    [wage_type : WageTypeValues, wage_amount : WageAmountValues,
     hours_per_day : WageHoursValues, monthly_work_days : WorkDaysValues]

InitWage ==
    /\ pc = "call"
    /\ args \in [self : WageProfiles]
    /\ ret = NoRet

DailyWage ==
    /\ pc = "call"
    /\ ret' = daily_wage(args.self)
    /\ pc' = "return"
    /\ UNCHANGED args

NextWage == DailyWage

SpecWage == InitWage /\ [][NextWage]_vars

(***************************************************************************)
(* C7: the daily wage                                                      *)
(***************************************************************************)
\* C7: daily_wage is never negative and never divides by zero, whatever the
\* wage type and the values of wage_amount, hours_per_day and
\* monthly_work_days: hourly is amount * hours_per_day, daily is amount,
\* monthly is amount / monthly_work_days, a non-positive denominator is 0.
C7_DailyWageNeverNegative ==
    pc = "return" =>
        LET w == args.self IN
        /\ ret.d > 0
        /\ ret.n >= 0
        /\ (w.wage_type = "hourly" /\ w.wage_amount > 0 /\ w.hours_per_day > 0)
              => ret = Whole(w.wage_amount * w.hours_per_day)
        /\ (w.wage_type = "daily" /\ w.wage_amount >= 0)
              => ret = Whole(w.wage_amount)
        /\ (w.wage_type = "monthly" /\ w.wage_amount > 0 /\ w.monthly_work_days > 0)
              => ret.n * w.monthly_work_days = w.wage_amount * ret.d
        /\ (w.wage_type = "monthly" /\ w.monthly_work_days <= 0)
              => ret = Whole(0)

(***************************************************************************)
(* round_money                                                             *)
(***************************************************************************)
round_money_without_guard(amount, step, mode) ==
    LET step1 == IF step < 1 THEN 1 ELSE step
        base == Frac(amount.n, amount.d * step1)
    IN IF mode = "round"
       THEN Whole(((2 * base.n + base.d) \div (2 * base.d)) * step1)
       ELSE IF mode = "ceil"
       THEN Whole((0 - ((0 - base.n) \div base.d)) * step1)
       ELSE Whole((base.n \div base.d) * step1)

\* "round" is int(base + 1e-8 + 0.5); the 1e-8 moves no value whose
\* denominator is below 5 * 10^7, so it is floor(base + 1/2) here
round_money(amount, step, mode) ==
    IF amount.n <= 0 THEN Whole(0)
    ELSE
      LET step1 == IF step < 1 THEN 1 ELSE step
          base == Frac(amount.n, amount.d * step1)
      IN IF mode = "round"
         THEN Whole(((2 * base.n + base.d) \div (2 * base.d)) * step1)
         ELSE IF mode = "ceil"
         THEN Whole((0 - ((0 - base.n) \div base.d)) * step1)
         ELSE Whole((base.n \div base.d) * step1)

(***************************************************************************)
(* Specification of round_money                                            *)
(***************************************************************************)
\* largest numerator of an amount drawn
MaxAmount == 25

AmountValues == {Frac(n, d) : n \in (0 - 3)..MaxAmount, d \in {1, 2, 3}}

StepValues == {-5, 0, 1, 3, 10}

ModeValues == {"floor", "round", "ceil", "half_up"}

InitMoney ==
    /\ pc = "call"
    /\ args \in [amount : AmountValues, step : StepValues, mode : ModeValues]
    /\ ret = NoRet

RoundMoney ==
    /\ pc = "call"
    /\ ret' = round_money(args.amount, args.step, args.mode)
    /\ pc' = "return"
    /\ UNCHANGED args

NextMoney == RoundMoney

SpecMoney == InitMoney /\ [][NextMoney]_vars

(***************************************************************************)
(* C3: round_money                                                         *)
(***************************************************************************)
\* C3: for amount > 0 and step > 0 the floor result is at most the amount
\* and the ceil result at least the amount; for amount <= 0 the result is 0
\* for every step and every mode.
C3_FloorBelowCeilAboveZeroForNonPositive ==
    pc = "return" =>
        /\ (args.amount.n > 0 /\ args.step > 0 /\ args.mode = "floor")
              => FracLE(ret, args.amount)
        /\ (args.amount.n > 0 /\ args.step > 0 /\ args.mode = "ceil")
              => FracLE(args.amount, ret)
        /\ args.amount.n <= 0 => ret = Whole(0)

\* 7/2 rounded up to the next multiple of 3
C3_Witness ==
    /\ pc = "return"
    /\ args.amount = Frac(7, 2)
    /\ args.step = 3
    /\ args.mode = "ceil"
    /\ ret = Whole(6)

(***************************************************************************)
(* RuleProfile and suggest_annual_days                                     *)
(***************************************************************************)
\* dataclass defaults of RuleProfile
DEFAULT_FIRST_YEAR_MAX == 11

DEFAULT_DAYS_AFTER_1Y == 26

DEFAULT_MONEY_STEP == 10

\* Optional[float]: None is the empty set, a number x is {x}
None == {}

Some(x) == {x}

Min(a, b) == IF a < b THEN a ELSE b

Max(a, b) == IF a > b THEN a ELSE b

suggest_annual_days_rate_le_80(rule, svc) ==
    LET full_years == svc.full_years
        rate == svc.attendance_rate
        full_months == svc.full_months
    IN IF rule.grant_type = "law_basic"
       THEN IF full_years < 1
            THEN [suggested_days |-> Some(Min(full_months, rule.first_year_max)),
                  description |-> "law_basic/under_1y"]
            ELSE IF rate <= 80
            THEN [suggested_days |-> Some(full_months),
                  description |-> "law_basic/rate_below_80"]
            ELSE LET extra == Max(0, Min(10, (full_years - 1) \div 2)) IN
                 [suggested_days |-> Some(15 + extra),
                  description |-> "law_basic/15_plus_extra"]
       ELSE IF rule.grant_type \in {"gw_cba_school", "gw_cba_institute"}
       THEN IF full_years < 1
            THEN [suggested_days |-> Some(Min(full_months, rule.first_year_max)),
                  description |-> "gw_cba/under_1y"]
            ELSE IF rate >= 80
            THEN [suggested_days |-> Some(rule.default_days_after_1y),
                  description |-> "gw_cba/default_days_after_1y"]
            ELSE [suggested_days |-> Some(full_months),
                  description |-> "gw_cba/rate_below_80"]
       ELSE IF rule.grant_type = "external_days"
       THEN [suggested_days |-> None, description |-> "external_days"]
       ELSE IF rule.grant_type = "manual_only"
       THEN [suggested_days |-> None, description |-> "manual_only"]
       ELSE [suggested_days |-> Some(0), description |-> ""]

suggest_annual_days_school_only(rule, svc) ==
    LET full_years == svc.full_years
        rate == svc.attendance_rate
        full_months == svc.full_months
    IN IF rule.grant_type = "law_basic"
       THEN IF full_years < 1
            THEN [suggested_days |-> Some(Min(full_months, rule.first_year_max)),
                  description |-> "law_basic/under_1y"]
            ELSE IF rate < 80
            THEN [suggested_days |-> Some(full_months),
                  description |-> "law_basic/rate_below_80"]
            ELSE LET extra == Max(0, Min(10, (full_years - 1) \div 2)) IN
                 [suggested_days |-> Some(15 + extra),
                  description |-> "law_basic/15_plus_extra"]
       ELSE IF rule.grant_type \in {"gw_cba_school"}
       THEN IF full_years < 1
            THEN [suggested_days |-> Some(Min(full_months, rule.first_year_max)),
                  description |-> "gw_cba/under_1y"]
            ELSE IF rate >= 80
            THEN [suggested_days |-> Some(rule.default_days_after_1y),
                  description |-> "gw_cba/default_days_after_1y"]
            ELSE [suggested_days |-> Some(full_months),
                  description |-> "gw_cba/rate_below_80"]
       ELSE IF rule.grant_type = "external_days"
       THEN [suggested_days |-> None, description |-> "external_days"]
       ELSE IF rule.grant_type = "manual_only"
       THEN [suggested_days |-> None, description |-> "manual_only"]
       ELSE [suggested_days |-> Some(0), description |-> ""]

\* The description is a formatted sentence in the code; it is kept as the
\* name of the branch that wrote it.  With no branch taken the initial
\* suggested = 0.0 and desc = "" are returned.
suggest_annual_days(rule, svc) ==
    LET full_years == svc.full_years
        rate == svc.attendance_rate
        full_months == svc.full_months
    IN IF rule.grant_type = "law_basic"
       THEN IF full_years < 1
            THEN [suggested_days |-> Some(Min(full_months, rule.first_year_max)),
                  description |-> "law_basic/under_1y"]
            ELSE IF rate < 80
            THEN [suggested_days |-> Some(full_months),
                  description |-> "law_basic/rate_below_80"]
            ELSE LET extra == Max(0, Min(10, (full_years - 1) \div 2)) IN
                 [suggested_days |-> Some(15 + extra),
                  description |-> "law_basic/15_plus_extra"]
       ELSE IF rule.grant_type \in {"gw_cba_school", "gw_cba_institute"}
       THEN IF full_years < 1
            THEN [suggested_days |-> Some(Min(full_months, rule.first_year_max)),
                  description |-> "gw_cba/under_1y"]
            ELSE IF rate >= 80
            THEN [suggested_days |-> Some(rule.default_days_after_1y),
                  description |-> "gw_cba/default_days_after_1y"]
            ELSE [suggested_days |-> Some(full_months),
                  description |-> "gw_cba/rate_below_80"]
       ELSE IF rule.grant_type = "external_days"
       THEN [suggested_days |-> None, description |-> "external_days"]
       ELSE IF rule.grant_type = "manual_only"
       THEN [suggested_days |-> None, description |-> "manual_only"]
       ELSE [suggested_days |-> Some(0), description |-> ""]

(***************************************************************************)
(* Specification of the entitlement advisor                                *)
(***************************************************************************)
\* most completed years of service drawn
MaxFullYears == 24

\* most completed months drawn
MaxFullMonths == 13

GrantTypeValues ==
    {"law_basic", "gw_cba_school", "gw_cba_institute", "external_days",
     "manual_only", "other"}

AdvisorRules ==
    [id : {"r"}, name : {<<>>}, grant_type : GrantTypeValues,
     first_year_max : {6, DEFAULT_FIRST_YEAR_MAX},
     default_days_after_1y : {20, DEFAULT_DAYS_AFTER_1Y},
     money_step : {DEFAULT_MONEY_STEP}, money_mode : {"floor"}]

AttendanceRateValues == {0, 79, 80, 100}

ServiceProfiles ==
    [hire_date : {""}, base_date : {""}, service_years : {0},
     full_years : (0 - 1)..MaxFullYears,
     attendance_rate : AttendanceRateValues,
     full_months : 0..MaxFullMonths]

InitAdvisor ==
    /\ pc = "call"
    /\ args \in [rule : AdvisorRules, svc : ServiceProfiles]
    /\ ret = NoRet

SuggestAnnualDays ==
    /\ pc = "call"
    /\ ret' = suggest_annual_days(args.rule, args.svc)
    /\ pc' = "return"
    /\ UNCHANGED args

NextAdvisor == SuggestAnnualDays

SpecAdvisor == InitAdvisor /\ [][NextAdvisor]_vars

(***************************************************************************)
(* C5, C10: the entitlement advisor                                        *)
(***************************************************************************)
\* the smaller of two numbers, by its defining property
Least(a, b) == CHOOSE x \in {a, b} : x <= a /\ x <= b

\* floor(x / 2), by its defining property
HalfFloor(x) == CHOOSE q \in (0 - 1)..x : 2 * q <= x /\ x < 2 * q + 2

\* C5: for grant_type law_basic the suggestion is min(full_months,
\* first_year_max) when full_years < 1, else full_months when the attendance
\* rate is below 80, else 15 + min(10, floor((full_years - 1) / 2)), which
\* lies between 15 and 25 and does not decrease with one more full year.
C5_LawBasicSuggestion ==
    (pc = "return" /\ args.rule.grant_type = "law_basic") =>
        LET svc == args.svc
            one_more == [svc EXCEPT !.full_years = @ + 1]
        IN IF svc.full_years < 1
           THEN ret.suggested_days
                    = {Least(svc.full_months, args.rule.first_year_max)}
           ELSE IF svc.attendance_rate < 80
           THEN ret.suggested_days = {svc.full_months}
           ELSE /\ ret.suggested_days
                      = {15 + Least(10, HalfFloor(svc.full_years - 1))}
                /\ \A v \in ret.suggested_days :
                      /\ 15 <= v /\ v <= 25
                      /\ \A w \in suggest_annual_days(args.rule, one_more).suggested_days :
                            v <= w

\* 23 full years at an attendance rate of exactly 80: the extra days are
\* capped at 10
C5_Witness ==
    /\ pc = "return"
    /\ args.rule.grant_type = "law_basic"
    /\ args.svc.full_years = 23
    /\ args.svc.attendance_rate = 80
    /\ ret.suggested_days = {25}

\* the other collective-agreement grant type
OtherCba(grant_type) ==
    IF grant_type = "gw_cba_school" THEN "gw_cba_institute" ELSE "gw_cba_school"

\* C10: the school and the institute collective-agreement rules give the
\* same suggestion for the same service profile, first_year_max and
\* default_days_after_1y: min(full_months, first_year_max) when
\* full_years < 1, default_days_after_1y when full_years >= 1 and the rate
\* is at least 80, full_months otherwise; the suggestion is never null.
C10_CbaRulesTreatedAlike ==
    (pc = "return"
        /\ args.rule.grant_type \in {"gw_cba_school", "gw_cba_institute"}) =>
        LET svc == args.svc
            twin == [args.rule EXCEPT !.grant_type = OtherCba(@)]
        IN /\ ret.suggested_days # None
           /\ ret.suggested_days
                = {IF svc.full_years < 1
                   THEN Least(svc.full_months, args.rule.first_year_max)
                   ELSE IF svc.attendance_rate >= 80
                        THEN args.rule.default_days_after_1y
                        ELSE svc.full_months}
           /\ suggest_annual_days(twin, svc).suggested_days = ret.suggested_days

\* the institute rule after the first year with a sufficient attendance rate
C10_Witness ==
    /\ pc = "return"
    /\ args.rule.grant_type = "gw_cba_institute"
    /\ args.rule.default_days_after_1y = 20
    /\ args.svc.full_years = 2
    /\ args.svc.attendance_rate = 80
    /\ ret.suggested_days = {20}

(***************************************************************************)
(* calc_unused_leave_payout                                                *)
(***************************************************************************)
\* rule.money_step or 10
money_step_or_10(money_step) ==
    IF money_step = 0 THEN DEFAULT_MONEY_STEP ELSE money_step

\* rule.money_mode or "floor"
money_mode_or_floor(money_mode) == IF money_mode = "" THEN "floor" ELSE money_mode

calc_unused_leave_payout_used_unclamped(rule, granted_days, used_days, wage_profile) ==
    LET granted == IF granted_days < 0 THEN 0 ELSE granted_days
        used == used_days
        diff == granted - used
        unused == IF diff < 0 THEN 0 ELSE diff
        daily == daily_wage(wage_profile)
        payout_raw == Frac(unused * daily.n, daily.d)
        step == money_step_or_10(rule.money_step)
        mode == money_mode_or_floor(rule.money_mode)
        payout_rounded == round_money(payout_raw, step, mode)
    IN [granted_days |-> granted, used_days |-> used, unused_days |-> unused,
        daily_wage_raw |-> daily, payout_raw |-> payout_raw,
        payout_rounded |-> payout_rounded,
        rounding_step |-> step, rounding_mode |-> mode]

calc_unused_leave_payout(rule, granted_days, used_days, wage_profile) ==
    LET granted == IF granted_days < 0 THEN 0 ELSE granted_days
        used == IF used_days < 0 THEN 0 ELSE used_days
        diff == granted - used
        unused == IF diff < 0 THEN 0 ELSE diff
        daily == daily_wage(wage_profile)
        payout_raw == Frac(unused * daily.n, daily.d)
        step == money_step_or_10(rule.money_step)
        mode == money_mode_or_floor(rule.money_mode)
        payout_rounded == round_money(payout_raw, step, mode)
    IN [granted_days |-> granted, used_days |-> used, unused_days |-> unused,
        daily_wage_raw |-> daily, payout_raw |-> payout_raw,
        payout_rounded |-> payout_rounded,
        rounding_step |-> step, rounding_mode |-> mode]

(***************************************************************************)
(* Specification of the payout calculator                                  *)
(***************************************************************************)
PayoutRules ==
    [id : {"r"}, name : {<<>>}, grant_type : {"manual_only"},
     first_year_max : {DEFAULT_FIRST_YEAR_MAX},
     default_days_after_1y : {DEFAULT_DAYS_AFTER_1Y},
     money_step : {-5, 0, 1, 4, DEFAULT_MONEY_STEP},
     money_mode : {"floor", "round", "ceil", "", "half_up"}]

GrantedDaysValues == {-1, 0, 3, 5}

UsedDaysValues == {-2, 0, 2, 7}

PayoutWages ==
    {[wage_type |-> "hourly", wage_amount |-> 9, hours_per_day |-> 8,
      monthly_work_days |-> 0],
     [wage_type |-> "daily", wage_amount |-> 25, hours_per_day |-> 8,
      monthly_work_days |-> 22],
     [wage_type |-> "monthly", wage_amount |-> 100, hours_per_day |-> 8,
      monthly_work_days |-> 3],
     [wage_type |-> "monthly", wage_amount |-> 100, hours_per_day |-> 8,
      monthly_work_days |-> 0],
     [wage_type |-> "daily", wage_amount |-> -7, hours_per_day |-> 8,
      monthly_work_days |-> 22]}

InitPayout ==
    /\ pc = "call"
    /\ args \in [rule : PayoutRules, granted_days : GrantedDaysValues,
                 used_days : UsedDaysValues, wage_profile : PayoutWages]
    /\ ret = NoRet

CalcUnusedLeavePayout ==
    /\ pc = "call"
    /\ ret' = calc_unused_leave_payout(args.rule, args.granted_days,
                                       args.used_days, args.wage_profile)
    /\ pc' = "return"
    /\ UNCHANGED args

NextPayout == CalcUnusedLeavePayout

SpecPayout == InitPayout /\ [][NextPayout]_vars

(***************************************************************************)
(* C4, C8: the payout calculator                                           *)
(***************************************************************************)
\* the larger of 0 and x, by its defining property
ZeroOr(x) == CHOOSE y \in {0, x} : y >= 0 /\ y >= x

\* C4: negative granted_days and used_days are clamped to zero and returned
\* clamped; unused_days is max(0, granted - used) over the clamped values
\* and is never negative, also when used_days > granted_days.
C4_UnusedDaysClampedNeverNegative ==
    pc = "return" =>
        /\ ret.granted_days = ZeroOr(args.granted_days)
        /\ ret.used_days = ZeroOr(args.used_days)
        /\ ret.unused_days
              = ZeroOr(ZeroOr(args.granted_days) - ZeroOr(args.used_days))
        /\ ret.unused_days >= 0

\* a negative used_days with granted days left over
C4_Witness ==
    /\ pc = "return"
    /\ args.granted_days = 3
    /\ args.used_days = -2
    /\ ret.used_days = 0
    /\ ret.unused_days = 3

\* C8: the rounding_step and rounding_mode returned are the ones applied:
\* the reported step is at least 1 (a non-positive money_step is coerced to
\* 1), payout_rounded is a multiple of it, and it is payout_raw rounded
\* under the reported mode (down for floor and for an unrecognized mode, up
\* for ceil, to the nearest multiple for round).
C8_ReportedRoundingIsApplied ==
    pc = "return" =>
        LET step == ret.rounding_step
            mode == ret.rounding_mode
            raw == ret.payout_raw
            rounded == ret.payout_rounded
            above == [n |-> rounded.n + step, d |-> 1]
            below == [n |-> rounded.n - step, d |-> 1]
            twice_raw == [n |-> 2 * raw.n, d |-> raw.d]
            twice_rounded == [n |-> 2 * rounded.n, d |-> 1]
        IN /\ step >= 1
           /\ args.rule.money_step <= 0 => step = 1
           /\ rounded.d = 1
           /\ rounded.n % step = 0
           /\ raw.n <= 0 => rounded = Whole(0)
           /\ raw.n > 0 =>
                IF mode = "ceil"
                THEN FracLT(below, raw) /\ FracLE(raw, rounded)
                ELSE IF mode = "round"
                THEN /\ FracLE([n |-> twice_rounded.n - step, d |-> 1], twice_raw)
                     /\ FracLT(twice_raw, [n |-> twice_rounded.n + step, d |-> 1])
                ELSE FracLE(rounded, raw) /\ FracLT(raw, above)

(***************************************************************************)
(* full_pipeline                                                           *)
(***************************************************************************)
\* RuleProfile(id, name, grant_type) with the dataclass defaults
RuleProfile(id, name, grant_type) ==
    [id |-> id, name |-> name, grant_type |-> grant_type,
     first_year_max |-> DEFAULT_FIRST_YEAR_MAX,
     default_days_after_1y |-> DEFAULT_DAYS_AFTER_1Y,
     money_step |-> DEFAULT_MONEY_STEP, money_mode |-> "floor"]

\* the names are Korean text, given by code point
rule_map ==
    [law_basic |->
        RuleProfile("law_basic",
                    <<48277, 51221, 32, 44592, 48376, 54805>>, "law_basic"),
     gw_school_cba |->
        RuleProfile("gw_school_cba",
                    <<54617, 44368, 44540, 47924, 51088, 32, 67, 66, 65, 32,
                      50696, 49884>>, "gw_cba_school"),
     gw_institute_cba |->
        RuleProfile("gw_institute_cba",
                    <<44592, 44288, 44540, 47924, 51088, 32, 67, 66, 65, 32,
                      50696, 49884>>, "gw_cba_institute"),
     gw_wage_guideline |->
        RuleProfile("gw_wage_guideline",
                    <<53685, 49345, 51076, 44552, 32, 51648, 52840, 54805>>,
                    "external_days"),
     custom |->
        RuleProfile("custom", <<52964, 49828, 53568>>, "manual_only")]

rule_map_get_or_custom(rule_id) ==
    IF rule_id \in DOMAIN rule_map THEN rule_map[rule_id] ELSE rule_map["custom"]

\* rule_map.get(rule_id, rule_map["law_basic"])
rule_map_get(rule_id) ==
    IF rule_id \in DOMAIN rule_map THEN rule_map[rule_id] ELSE rule_map["law_basic"]

\* dict.get(key, default)
dict_get(dict, key, default) ==
    IF key \in DOMAIN dict THEN dict[key] ELSE default

full_pipeline(rule_id, service_dict, wage_dict, granted_days, used_days) ==
    LET rule == rule_map_get(rule_id)
        svc == [hire_date |-> dict_get(service_dict, "hire_date", ""),
                base_date |-> dict_get(service_dict, "base_date", ""),
                service_years |-> dict_get(service_dict, "service_years", 0),
                full_years |-> dict_get(service_dict, "full_years", 0),
                attendance_rate |-> dict_get(service_dict, "attendance_rate", 0),
                full_months |-> dict_get(service_dict, "full_months", 0)]
        wage == [wage_type |-> dict_get(wage_dict, "wage_type", "hourly"),
                 wage_amount |-> dict_get(wage_dict, "wage_amount", 0),
                 hours_per_day |-> dict_get(wage_dict, "hours_per_day", 0),
                 monthly_work_days |-> dict_get(wage_dict, "monthly_work_days", 0)]
        suggestion == suggest_annual_days(rule, svc)
        payout == calc_unused_leave_payout(rule, granted_days, used_days, wage)
    IN [rule |-> rule,
        service |-> svc,
        wage |-> [wage_type |-> wage.wage_type,
                  wage_amount |-> wage.wage_amount,
                  hours_per_day |-> wage.hours_per_day,
                  monthly_work_days |-> wage.monthly_work_days,
                  daily_wage |-> daily_wage(wage)],
        suggestion |-> suggestion,
        payout |-> payout]

(***************************************************************************)
(* Specification of the pipeline                                           *)
(***************************************************************************)
\* the five catalog ids, an id that is not in the catalog, and a grant-type
\* tag used as an id
RuleIdValues ==
    {"law_basic", "gw_school_cba", "gw_institute_cba", "gw_wage_guideline",
     "custom", "gw_cba_school", "no_such_rule"}

ServiceDicts ==
    {[hire_date |-> "2025-03-01"],
     [full_years |-> 0, full_months |-> 5],
     [full_years |-> 1, full_months |-> 12, attendance_rate |-> 85],
     [full_years |-> 2, full_months |-> 11, attendance_rate |-> 70],
     [hire_date |-> "2003-03-01", base_date |-> "2026-03-01",
      service_years |-> 23, full_years |-> 23, attendance_rate |-> 95,
      full_months |-> 12]}

WageDicts ==
    {[wage_amount |-> 9],
     [wage_amount |-> 9, hours_per_day |-> 8],
     [wage_type |-> "daily", wage_amount |-> 25],
     [wage_type |-> "monthly", wage_amount |-> 2000000,
      monthly_work_days |-> 22]}

PipelineGrantedValues == {-1, 15}

PipelineUsedValues == {10, 20}

InitPipeline ==
    /\ pc = "call"
    /\ args \in [rule_id : RuleIdValues, service_dict : ServiceDicts,
                 wage_dict : WageDicts, granted_days : PipelineGrantedValues,
                 used_days : PipelineUsedValues]
    /\ ret = NoRet

FullPipeline ==
    /\ pc = "call"
    /\ ret' = full_pipeline(args.rule_id, args.service_dict, args.wage_dict,
                            args.granted_days, args.used_days)
    /\ pc' = "return"
    /\ UNCHANGED args

NextPipeline == FullPipeline

SpecPipeline == InitPipeline /\ [][NextPipeline]_vars

(***************************************************************************)
(* C6: the rule lookup of the pipeline                                     *)
(***************************************************************************)
CatalogIds ==
    {"law_basic", "gw_school_cba", "gw_institute_cba", "gw_wage_guideline",
     "custom"}

\* C6: for a rule_id outside the five catalog ids the rule used and returned
\* is the statutory-basic rule law_basic, and suggestion and payout are those
\* of the same call with rule_id "law_basic"; for a catalog id the rule with
\* exactly that id is used.
C6_UnknownRuleFallsBackToLawBasic ==
    pc = "return" =>
        IF args.rule_id \in CatalogIds
        THEN ret.rule.id = args.rule_id
        ELSE LET basic == full_pipeline("law_basic", args.service_dict,
                                        args.wage_dict, args.granted_days,
                                        args.used_days)
             IN /\ ret.rule.id = "law_basic"
                /\ ret.rule.grant_type = "law_basic"
                /\ ret.suggestion = basic.suggestion
                /\ ret.suggestion.suggested_days # None
                /\ ret.payout = basic.payout

\* an id that is not in the catalog, after 23 full years: the statutory
\* suggestion of 25 days and the payout of the worked example
C6_Witness ==
    /\ pc = "return"
    /\ args.rule_id = "no_such_rule"
    /\ ret.rule.id = "law_basic"
    /\ ret.suggestion.suggested_days = {25}
    /\ ret.payout.payout_rounded = Whole(454540)

====
